---- MODULE Spec2Model ----
(***************************************************************************)
(* A model of the ICR2 parameter patch engine: version identification by   *)
(* file size, catalog filtering, little-endian read/write at byte offsets, *)
(* the per-category session (unsaved_changes) of the console editor        *)
(* (icr2_physedit.py) and of the Qt editor (icr2edit.py), save, revert,    *)
(* and export/import of parameter values.                                  *)
(***************************************************************************)
EXTENDS Integers, Sequences, FiniteSets, TLC

VARIABLES
    shell,                   \* "console" (icr2_physedit.py) or "gui" (icr2edit.py)
    pc,                      \* where the program is: see Init and the actions
    disk,                    \* path -> file (the file system, target files only)
    exe_path,                \* the open target file's path, or NoPath
    version,                 \* the identified version tag, or NoVersion
    parameters_by_category,  \* the loaded catalog: sequence of [name, rows]
    unsaved_changes,         \* the ChangeSet: category -> [params, values]
    current_category,        \* the displayed category, or NoCategory
    current_params,          \* its filtered parameter list
    current_values,          \* the live current-value map (index -> value)
    checked_parameters,      \* gui: category -> set of checked row indices
    param_table,             \* gui: the spin boxes' values of the shown table
    current_row,             \* gui: category_list.currentRow()
    csv_file,                \* the last exported records (a sequence of rows)
    last,                    \* what the last operation did (history)
    probe,                   \* what a specification records of its operations
    ops                      \* the operations so far, where they are bounded

vars == <<shell, pc, disk, exe_path, version, parameters_by_category,
          unsaved_changes, current_category, current_params, current_values,
          checked_parameters, param_table, current_row, csv_file, last, probe,
          ops>>

(***************************************************************************)
(* Python values.  TLC's integers are 32 bits wide and a UInt32 parameter  *)
(* ranges to 0xFFFFFFFF, so a Python int n is held as the pair <<hi, lo>>  *)
(* with n = hi * 65536 + lo and 0 <= lo < 65536 (hi is negative for a      *)
(* negative n).  None is the empty tuple.  Offsets and lengths, which stay *)
(* far below 2^31, are plain integers.                                     *)
(***************************************************************************)
None == << >>

PyInt(n) == <<n \div 65536, n % 65536>>

IsInt(v) == Len(v) = 2

IntLE(a, b) == a[1] < b[1] \/ (a[1] = b[1] /\ a[2] <= b[2])

IntNeg(v) == IF v[2] = 0 THEN <<-v[1], 0>> ELSE <<-v[1] - 1, 65536 - v[2]>>

Min(a, b) == IF a <= b THEN a ELSE b

(***************************************************************************)
(* Strings are sequences of one-character strings.                         *)
(***************************************************************************)
RECURSIVE LStrip(_)
LStrip(s) == IF s # << >> /\ s[1] = " " THEN LStrip(Tail(s)) ELSE s

RECURSIVE RStrip(_)
RStrip(s) ==
    IF s # << >> /\ s[Len(s)] = " " THEN RStrip(SubSeq(s, 1, Len(s) - 1)) ELSE s

\* str.strip()
Strip(s) == RStrip(LStrip(s))

UpperChar(c) ==
    CASE c = "a" -> "A" [] c = "b" -> "B" [] c = "c" -> "C" [] c = "d" -> "D"
      [] c = "e" -> "E" [] c = "f" -> "F" [] c = "x" -> "X" [] c = "z" -> "Z"
      [] OTHER -> c

\* str.upper()
Upper(s) == [i \in 1..Len(s) |-> UpperChar(s[i])]

DecDigits == {"0", "1", "2", "3", "4", "5", "6", "7", "8", "9"}

HexDigits == DecDigits \cup {"a", "b", "c", "d", "e", "f", "A", "B", "C", "D", "E", "F"}

DigitVal(c) ==
    CASE c = "0" -> 0 [] c = "1" -> 1 [] c = "2" -> 2 [] c = "3" -> 3
      [] c = "4" -> 4 [] c = "5" -> 5 [] c = "6" -> 6 [] c = "7" -> 7
      [] c = "8" -> 8 [] c = "9" -> 9
      [] c \in {"a", "A"} -> 10 [] c \in {"b", "B"} -> 11
      [] c \in {"c", "C"} -> 12 [] c \in {"d", "D"} -> 13
      [] c \in {"e", "E"} -> 14 [] c \in {"f", "F"} -> 15

DigitChar(d) == <<"0", "1", "2", "3", "4", "5", "6", "7", "8", "9">>[d + 1]

AllIn(s, chars) == \A i \in 1..Len(s) : s[i] \in chars

\* The sign and the digits of a stripped literal: [neg, body].
SignSplit(t) ==
    IF t # << >> /\ t[1] \in {"+", "-"}
    THEN [neg |-> t[1] = "-", body |-> Tail(t)]
    ELSE [neg |-> FALSE, body |-> t]

RECURSIVE HexValue(_)
HexValue(ds) ==
    IF ds = << >> THEN 0
    ELSE HexValue(SubSeq(ds, 1, Len(ds) - 1)) * 16 + DigitVal(ds[Len(ds)])

\* int(s, 16): [ok, val]; ok = FALSE is ValueError.  Surrounding blanks, a
\* sign and a 0x prefix are accepted, as Python accepts them.
int16(s) ==
    LET sp   == SignSplit(Strip(s))
        b    == sp.body
        body == IF Len(b) >= 2 /\ b[1] = "0" /\ b[2] \in {"x", "X"}
                THEN SubSeq(b, 3, Len(b)) ELSE b
    IN  IF body # << >> /\ AllIn(body, HexDigits)
        THEN [ok |-> TRUE,
              val |-> IF sp.neg THEN 0 - HexValue(body) ELSE HexValue(body)]
        ELSE [ok |-> FALSE, val |-> 0]

RECURSIVE DecValue(_)
DecValue(ds) ==
    IF ds = << >> THEN <<0, 0>>
    ELSE LET p  == DecValue(SubSeq(ds, 1, Len(ds) - 1))
             lo == p[2] * 10 + DigitVal(ds[Len(ds)])
         IN  <<p[1] * 10 + (lo \div 65536), lo % 65536>>

\* int(s): [ok, val]; ok = FALSE is ValueError.
int10(s) ==
    LET sp == SignSplit(Strip(s))
    IN  IF sp.body # << >> /\ AllIn(sp.body, DecDigits)
        THEN [ok |-> TRUE,
              val |-> IF sp.neg THEN IntNeg(DecValue(sp.body))
                      ELSE DecValue(sp.body)]
        ELSE [ok |-> FALSE, val |-> None]

\* str.isdigit()
isdigit(s) == s # << >> /\ AllIn(s, DecDigits)

RECURSIVE DecString(_)
DecString(v) ==
    IF v = <<0, 0>> THEN << >>
    ELSE LET t == (v[1] % 10) * 65536 + v[2]
         IN  DecString(<<v[1] \div 10, t \div 10>>) \o <<DigitChar(t % 10)>>

\* str(v) of an int
str(v) ==
    IF v = <<0, 0>> THEN <<"0">>
    ELSE IF v[1] < 0 THEN <<"-">> \o DecString(IntNeg(v))
    ELSE DecString(v)

(***************************************************************************)
(* Version identification (EXE_VERSIONS, ADDRESS_KEYS).  The console       *)
(* editor's tables have no rend32A entry; the Qt editor's have.            *)
(***************************************************************************)
NoVersion == "None"

\* A table in which the dos102 size carries the dos100 tag as well.
EXE_VERSIONS_shared(sh) ==
    {<<1142371, "dos100">>, <<1142387, "dos100">>, <<1247899, "rend102">>,
     <<1916928, "windy101">>}
    \cup (IF sh = "gui" THEN {<<1109095, "rend32A">>} ELSE {})

EXE_VERSIONS(sh) ==
    {<<1142371, "dos100">>, <<1142387, "dos102">>, <<1247899, "rend102">>,
     <<1916928, "windy101">>}
    \cup (IF sh = "gui" THEN {<<1109095, "rend32A">>} ELSE {})

ADDRESS_KEYS(sh) ==
    {<<"dos100", "DOS address">>, <<"dos102", "DOS address">>,
     <<"windy101", "Windy address">>, <<"rend102", "Rendition address">>}
    \cup (IF sh = "gui" THEN {<<"rend32A", "Rendition DOS32A">>} ELSE {})

\* dict.get(key, default) on a table of <<key, value>> pairs
Lookup(table, key, default) ==
    IF \E e \in table : e[1] = key
    THEN (CHOOSE e \in table : e[1] = key)[2]
    ELSE default

(***************************************************************************)
(* The target file.  Only its last bytes are held: data[1] is the byte at  *)
(* offset base, and the file's length is base + Len(data).  The bytes      *)
(* below base are never addressed by the catalogs used here.               *)
(***************************************************************************)
FileSize(f) == f.base + Len(f.data)

\* A lookup that also takes the table's size nearest the file's, one byte off.
identify_nearest(sh, f) ==
    IF \E e \in EXE_VERSIONS(sh) : e[1] - FileSize(f) \in {-1, 0, 1}
    THEN (CHOOSE e \in EXE_VERSIONS(sh) : e[1] - FileSize(f) \in {-1, 0, 1})[2]
    ELSE NoVersion

\* os.path.getsize, then EXE_VERSIONS.get(size)
identify_icr2_version(sh, f) == Lookup(EXE_VERSIONS(sh), FileSize(f), NoVersion)

\* f.seek(offset); f.read(length): the bytes there are, at most length
FileRead(f, offset, length) ==
    LET p == offset - f.base + 1
    IN  SubSeq(f.data, p, Min(p + length - 1, Len(f.data)))

\* f.seek(offset); f.write(bs): a write past the end fills the gap with zeros
FileWrite(f, offset, bs) ==
    LET p      == offset - f.base + 1
        padded == IF Len(f.data) < p - 1
                  THEN f.data \o [i \in 1..(p - 1 - Len(f.data)) |-> 0]
                  ELSE f.data
    IN  [f EXCEPT !.data = SubSeq(padded, 1, p - 1) \o bs
                           \o SubSeq(padded, p + Len(bs), Len(padded))]

RECURSIVE LEVal(_)
LEVal(bs) == IF bs = << >> THEN 0 ELSE bs[1] + 256 * LEVal(Tail(bs))

\* The little-endian unsigned integer of a byte string.
FromLE(data) ==
    <<LEVal(SubSeq(data, 3, Len(data))), LEVal(SubSeq(data, 1, Min(2, Len(data))))>>

\* struct.unpack("<B" | "<H" | "<I", data)[0]
struct_unpack(data) == FromLE(data)

\* int.from_bytes(data, "little")
int_from_bytes(data) == FromLE(data)

\* 2^(8 * length) - 1
MaxUnsigned(length) ==
    IF length = 0 THEN <<0, 0>>
    ELSE IF length = 1 THEN <<0, 255>>
    ELSE <<256 ^ (length - 2) - 1, 65535>>

ToLE(n, k) == [i \in 1..k |-> (n \div (256 ^ (i - 1))) % 256]

LEBytes(v, length) == ToLE(v[2], Min(length, 2)) \o ToLE(v[1], length - Min(length, 2))

Representable(v, length) ==
    IsInt(v) /\ IntLE(<<0, 0>>, v) /\ IntLE(v, MaxUnsigned(length))

struct_pack_be(length, value) ==
    IF Representable(value, length)
    THEN [ok |-> TRUE,
          bytes |-> [i \in 1..length |-> LEBytes(value, length)[length + 1 - i]]]
    ELSE [ok |-> FALSE, bytes |-> << >>]

\* struct.pack("<B" | "<H" | "<I", value): [ok, bytes]; ok = FALSE is
\* struct.error (value out of range, or not an integer)
struct_pack(length, value) ==
    IF Representable(value, length)
    THEN [ok |-> TRUE, bytes |-> LEBytes(value, length)]
    ELSE [ok |-> FALSE, bytes |-> << >>]

\* value.to_bytes(length, "little"): ok = FALSE is OverflowError (or
\* AttributeError for None)
to_bytes(length, value) ==
    IF Representable(value, length)
    THEN [ok |-> TRUE, bytes |-> LEBytes(value, length)]
    ELSE [ok |-> FALSE, bytes |-> << >>]

\* The outcome of a call that raised.
Raised == <<"raised">>

\* read_value_from_exe: the value, None, or Raised (f.seek of a negative
\* offset raises OSError)
read_value_from_exe(f, address_hex, length) ==
    LET o == int16(address_hex)
    IN  IF ~o.ok THEN None
        ELSE IF o.val < 0 THEN Raised
        ELSE LET data == FileRead(f, o.val, length)
             IN  IF Len(data) # length THEN None
                 ELSE IF length \in {1, 2, 4} THEN struct_unpack(data)
                 ELSE int_from_bytes(data)

\* A write that cuts an integer down to the low bytes instead of raising.
write_value_wrapping(f, address_hex, length, value) ==
    LET o == int16(address_hex)
    IN  IF ~o.ok THEN [raised |-> FALSE, file |-> f]
        ELSE IF o.val < 0 \/ ~IsInt(value) THEN [raised |-> TRUE, file |-> f]
        ELSE [raised |-> FALSE, file |-> FileWrite(f, o.val, LEBytes(value, length))]

\* A write without the except clause: an offset that does not parse raises.
write_value_unguarded(f, address_hex, length, value) ==
    LET o      == int16(address_hex)
        packed == IF length \in {1, 2, 4} THEN struct_pack(length, value)
                  ELSE to_bytes(length, value)
    IN  IF ~o.ok \/ o.val < 0 \/ ~packed.ok THEN [raised |-> TRUE, file |-> f]
        ELSE [raised |-> FALSE, file |-> FileWrite(f, o.val, packed.bytes)]

\* write_value_to_exe: [raised, file].  Nothing is written when the offset
\* does not parse (a plain return) or when seek or the encoding raises.
write_value_to_exe(f, address_hex, length, value) ==
    LET o      == int16(address_hex)
        packed == IF length \in {1, 2, 4} THEN struct_pack(length, value)
                  ELSE to_bytes(length, value)
    IN  IF ~o.ok THEN [raised |-> FALSE, file |-> f]
        ELSE IF o.val < 0 \/ ~packed.ok THEN [raised |-> TRUE, file |-> f]
        ELSE [raised |-> FALSE, file |-> FileWrite(f, o.val, packed.bytes)]

(***************************************************************************)
(* The catalog (parameters.csv): rows with named fields.  Category,        *)
(* Description and Data type are held as whole strings, the fields the     *)
(* code parses (the address columns, Length) as character sequences.       *)
(***************************************************************************)
Row(cat, desc, dtype, length, dos, windy, rend, r32) ==
    [f \in {"Category", "Description", "Data type", "Length", "DOS address",
            "Windy address", "Rendition address", "Rendition DOS32A"} |->
        CASE f = "Category" -> cat
          [] f = "Description" -> desc
          [] f = "Data type" -> dtype
          [] f = "Length" -> length
          [] f = "DOS address" -> dos
          [] f = "Windy address" -> windy
          [] f = "Rendition address" -> rend
          [] f = "Rendition DOS32A" -> r32]

\* row.get(key, "")
Get(row, key) == IF key \in DOMAIN row THEN row[key] ELSE << >>

\* A dict keyed by category is a sequence of entries in insertion order.
Has(d, cat) == \E i \in 1..Len(d) : d[i].category = cat

Entry(d, cat) == d[CHOOSE i \in 1..Len(d) : d[i].category = cat]

Keys(d) == [i \in 1..Len(d) |-> d[i].category]

\* load_parameters_by_category: rows grouped by Category in source order;
\* rows with an empty Category are skipped
RECURSIVE load_parameters_by_category(_)
load_parameters_by_category(rows) ==
    IF rows = << >> THEN << >>
    ELSE LET n    == Len(rows)
             d    == load_parameters_by_category(SubSeq(rows, 1, n - 1))
             row  == rows[n]
             cat  == row["Category"]
         IN  IF cat = "" THEN d
             ELSE IF Has(d, cat)
             THEN [i \in 1..Len(d) |->
                     IF d[i].category = cat
                     THEN [d[i] EXCEPT !.rows = Append(@, row)] ELSE d[i]]
             ELSE Append(d, [category |-> cat, rows |-> <<row>>])

\* A filter that keeps every row whose offset for the version is not blank.
filter_nonblank(sh, parameters, ver) ==
    LET address_key == Lookup(ADDRESS_KEYS(sh), ver, "Windy address")
        Filled(p)   == Strip(Get(p, address_key)) # << >>
    IN  SelectSeq(parameters, Filled)

\* filter_parameters: the rows whose offset for the version parses as hex
filter_parameters(sh, parameters, ver) ==
    LET address_key == Lookup(ADDRESS_KEYS(sh), ver, "Windy address")
        Valid(p)    == int16(Strip(Get(p, address_key))).ok
    IN  SelectSeq(parameters, Valid)

\* A small Python int as a plain integer.
Plain(v) == v[1] * 65536 + v[2]

\* int(param["Length"]) if param["Length"].isdigit() else 4
param_length(param) ==
    IF isdigit(param["Length"]) THEN Plain(int10(param["Length"]).val) ELSE 4

\* param[address_key].strip()
param_address(sh, param, ver) == Strip(param[Lookup(ADDRESS_KEYS(sh), ver, "")])

\* load_initial_values: [raised, values]; values maps 0..n-1 to what
\* read_value_from_exe returns, None included
load_initial_values(sh, parameters, f, ver) ==
    LET vals == [i \in 0..(Len(parameters) - 1) |->
                   read_value_from_exe(f, param_address(sh, parameters[i + 1], ver),
                                       param_length(parameters[i + 1]))]
    IN  [raised |-> \E i \in DOMAIN vals : vals[i] = Raised, values |-> vals]

\* type_bounds.get(data_type, (0, 0xFFFFFFFF))
type_bounds(data_type) ==
    CASE data_type = "UInt8"  -> <<PyInt(0), <<0, 255>>>>
      [] data_type = "UInt16" -> <<PyInt(0), <<0, 65535>>>>
      [] OTHER                -> <<PyInt(0), <<65535, 65535>>>>

\* save_changes_to_exe / PhysicsEditorGUI.save_changes from index i on:
\* [raised, file]; the writes made before a write raises stay in the file
RECURSIVE SaveFrom(_, _, _, _, _, _)
SaveFrom(sh, params, values, f, ver, i) ==
    IF i >= Len(params) THEN [raised |-> FALSE, file |-> f]
    ELSE IF i \notin DOMAIN values THEN SaveFrom(sh, params, values, f, ver, i + 1)
    ELSE LET w == write_value_to_exe(f, param_address(sh, params[i + 1], ver),
                                     param_length(params[i + 1]), values[i])
         IN  IF w.raised THEN w
             ELSE SaveFrom(sh, params, values, w.file, ver, i + 1)

save_changes_to_exe(sh, params, values, f, ver) == SaveFrom(sh, params, values, f, ver, 0)

\* A save loop that goes on with the next category after one has raised.
RECURSIVE SaveEntriesSkipping(_, _, _, _, _)
SaveEntriesSkipping(sh, d, f, ver, k) ==
    IF k > Len(d) THEN [raised |-> FALSE, file |-> f]
    ELSE LET w    == save_changes_to_exe(sh, d[k].params, d[k].values, f, ver)
             rest == SaveEntriesSkipping(sh, d, w.file, ver, k + 1)
         IN  [raised |-> w.raised \/ rest.raised, file |-> rest.file]

\* for cat, (params, values) in unsaved_changes.items(): save_changes(...)
RECURSIVE SaveEntries(_, _, _, _, _)
SaveEntries(sh, d, f, ver, k) ==
    IF k > Len(d) THEN [raised |-> FALSE, file |-> f]
    ELSE LET w == save_changes_to_exe(sh, d[k].params, d[k].values, f, ver)
         IN  IF w.raised THEN w ELSE SaveEntries(sh, d, w.file, ver, k + 1)

\* An assignment that stores only the values that differ from the file's.
PutSparse(d, cat, params, values) ==
    LET init == load_initial_values(shell, params, disk[exe_path], version).values
        keep == {i \in DOMAIN values : i \notin DOMAIN init \/ values[i] # init[i]}
        e    == [category |-> cat, params |-> params,
                 values |-> [i \in keep |-> values[i]]]
    IN  IF Has(d, cat)
        THEN [i \in 1..Len(d) |-> IF d[i].category = cat THEN e ELSE d[i]]
        ELSE Append(d, e)

\* An assignment that drops the entry when the values are the file's again.
PutUnlessBaseline(d, cat, params, values) ==
    IF values = load_initial_values(shell, params, disk[exe_path], version).values
    THEN SelectSeq(d, LAMBDA e : e.category # cat)
    ELSE IF Has(d, cat)
    THEN [i \in 1..Len(d) |->
            IF d[i].category = cat
            THEN [category |-> cat, params |-> params, values |-> values] ELSE d[i]]
    ELSE Append(d, [category |-> cat, params |-> params, values |-> values])

\* unsaved_changes[cat] = (params, values): a key already present keeps its place
Put(d, cat, params, values) ==
    LET e == [category |-> cat, params |-> params, values |-> values]
    IN  IF Has(d, cat)
        THEN [i \in 1..Len(d) |-> IF d[i].category = cat THEN e ELSE d[i]]
        ELSE Append(d, e)

(***************************************************************************)
(* The files and the catalog the model runs on.  ICR2.EXE has the dos100   *)
(* size and R32.EXE the rend32A size (which only the Qt editor knows);     *)
(* BAD.EXE has a size no table lists.  The catalog's offsets address the   *)
(* last bytes of each file; "drag" starts two bytes before the end of      *)
(* ICR2.EXE, so that its four-byte read is short.                          *)
(***************************************************************************)
DosSize == 1142371

Rend32ASize == 1109095

HexChar(d) ==
    <<"0", "1", "2", "3", "4", "5", "6", "7", "8", "9", "A", "B", "C", "D", "E", "F">>[d + 1]

RECURSIVE Hex(_)
Hex(n) == IF n < 16 THEN <<HexChar(n)>> ELSE Hex(n \div 16) \o <<HexChar(n % 16)>>

Paths == {"ICR2.EXE", "R32.EXE", "BAD.EXE"}

SampleDisk ==
    [p \in Paths |->
        CASE p = "ICR2.EXE" -> [base |-> DosSize - 8, data |-> <<7, 0, 7, 7, 7, 0, 1, 2>>]
          [] p = "R32.EXE"  -> [base |-> Rend32ASize - 3, data |-> <<7, 0, 7>>]
          [] p = "BAD.EXE"  -> [base |-> DosSize - 7, data |-> <<7, 0, 7, 7, 7, 0, 1, 2>>]]

CatalogRows ==
    <<Row("Engine", "boost", "UInt16", <<"2">>,
          Hex(DosSize - 8), << >>, << >>, Hex(Rend32ASize - 3)),
      Row("Engine", "unmapped", "UInt8", <<"1">>,
          << >>, <<"1", "F">>, <<"N", "/", "A">>, << >>),
      Row("Engine", "revs", "", <<"1">>,
          <<" ", "1", "1", "6", "e", "5", "d", " ">>, << >>, << >>, << >>),
      Row("", "comment row", "", << >>, Hex(DosSize - 8), << >>, << >>, << >>),
      Row("Chassis", "grip", "UInt8", <<"1">>,
          Hex(DosSize - 5), << >>, << >>, Hex(Rend32ASize - 1)),
      Row("Chassis", "drag", "UInt32", <<"4">>,
          Hex(DosSize - 2), << >>, << >>, << >>),
      Row("Gears", "final", "UInt8", <<"1">>,
          Hex(DosSize - 4), << >>, << >>, << >>)>>

NoPath == "None"

\* self.current_category before the first category is selected (the Qt
\* editor's __init__ does not set the attribute)
Unset == "<unset>"

\* The operations a behaviour of SpecExchange has, over the runs of the
\* program; the other specifications do not count them (ops = -1).
MaxOps == 9

Tick == ops < MaxOps /\ ops' = IF ops < 0 THEN ops ELSE ops + 1

Op(op, ok, reads) == [op |-> op, ok |-> ok, reads |-> reads]

NoProbe == [op |-> "none"]

SessionInit ==
    /\ version = NoVersion
    /\ parameters_by_category = << >>
    /\ unsaved_changes = << >>
    /\ current_category = Unset
    /\ current_params = << >>
    /\ current_values = << >>
    /\ checked_parameters = << >>
    /\ param_table = << >>
    /\ current_row = -1
    /\ csv_file = << >>
    /\ last = Op("init", TRUE, 0)

\* The console editor starts on the path of argv[1]; the Qt editor starts
\* with no file.
EditorInit ==
    /\ SessionInit
    /\ probe = NoProbe
    /\ ops = -1
    /\ \/ shell = "console" /\ pc = "start" /\ exe_path \in Paths
       \/ shell = "gui" /\ pc = "idle" /\ exe_path = NoPath

Init == EditorInit /\ disk = SampleDisk

(***************************************************************************)
(* The console editor: main() of icr2_physedit.py.                         *)
(***************************************************************************)
\* values.get(i, default) for a default that is not None
ValueAt(values, i) == IF i \in DOMAIN values THEN values[i] ELSE PyInt(0)

\* sequence[k] for a Python index k: the 1-based position, 0 for IndexError
PyIndex(n, k) == IF 0 <= k /\ k < n THEN k + 1 ELSE IF -n <= k /\ k < 0 THEN n + k + 1 ELSE 0

\* main() up to the menu loop
ConsoleStart ==
    /\ shell = "console" /\ pc = "start"
    /\ Tick
    /\ LET v == identify_icr2_version(shell, disk[exe_path])
       IN  /\ version' = v
           /\ IF v = NoVersion
              THEN /\ pc' = "exited"
                   /\ last' = Op("start", FALSE, 0)
                   /\ UNCHANGED parameters_by_category
              ELSE /\ pc' = "menu"
                   /\ last' = Op("start", TRUE, 0)
                   /\ parameters_by_category' = load_parameters_by_category(CatalogRows)
    /\ UNCHANGED <<shell, disk, exe_path, unsaved_changes, current_category,
                   current_params, current_values, checked_parameters,
                   param_table, current_row, csv_file, probe>>

\* list_parameters_with_values prints every row's value with the format
\* ">10", which raises TypeError for None
list_parameters_with_values(parameters, values) ==
    \A i \in 0..(Len(parameters) - 1) : ValueAt(values, i) # None

\* What the menu's numeric choice k (a position of the catalog) selects
\* under the ChangeSet uc: the category's filtered list and its values, from
\* uc or from the file, and whether the first listing of the parameter loop
\* went through
select_category(k, uc) ==
    LET cat   == parameters_by_category[k].category
        valid == filter_parameters(shell, parameters_by_category[k].rows, version)
        init  == load_initial_values(shell, valid, disk[exe_path], version)
        kept  == Has(uc, cat)
        vals  == IF kept THEN Entry(uc, cat).values
                 ELSE IF init.raised THEN << >> ELSE init.values
    IN  [category |-> cat,
         params   |-> valid,
         values   |-> vals,
         ok       |-> (kept \/ ~init.raised) /\ list_parameters_with_values(valid, vals),
         reads    |-> IF kept THEN 0 ELSE Len(valid)]

\* The menu's numeric choice: categories[int(choice)], then the parameter loop
ConsoleSelect(choice) ==
    /\ shell = "console" /\ pc = "menu"
    /\ Tick
    /\ IF PyIndex(Len(parameters_by_category), choice) = 0
       THEN /\ last' = Op("select", FALSE, 0)
            /\ UNCHANGED <<pc, current_category, current_params, current_values>>
       ELSE \E r \in {select_category(PyIndex(Len(parameters_by_category), choice),
                                      unsaved_changes)} :
                /\ current_category' = r.category
                /\ current_params' = r.params
                /\ current_values' = r.values
                /\ pc' = IF r.ok THEN "params" ELSE "crashed"
                /\ last' = Op("select", r.ok, r.reads)
    /\ UNCHANGED <<shell, disk, exe_path, version, parameters_by_category,
                   unsaved_changes, checked_parameters, param_table, current_row, csv_file, probe>>

\* An edit that stores a value above the type's range cut down to the range.
prompt_edit_clamping(index, parameters, values, raw_input_val) ==
    LET k      == PyIndex(Len(parameters), index)
        same   == [changed |-> FALSE, values |-> values]
        new    == int10(raw_input_val)
    IN  IF k = 0 THEN same
        ELSE LET b == type_bounds(parameters[k]["Data type"])
             IN  IF ~new.ok THEN same
                 ELSE IF ~IntLE(b[1], new.val) THEN same
                 ELSE [changed |-> TRUE,
                       values |-> (index :> (IF IntLE(new.val, b[2]) THEN new.val
                                             ELSE b[2])) @@ values]

\* prompt_edit_parameter: [changed, values]
prompt_edit_parameter(index, parameters, values, raw_input_val) ==
    LET k      == PyIndex(Len(parameters), index)
        same   == [changed |-> FALSE, values |-> values]
        new    == int10(raw_input_val)
    IN  IF k = 0 THEN same                              \* IndexError
        ELSE LET b == type_bounds(parameters[k]["Data type"])
             IN  IF ~new.ok THEN same                   \* ValueError
                 ELSE IF ~(IntLE(b[1], new.val) /\ IntLE(new.val, b[2])) THEN same
                 ELSE [changed |-> TRUE, values |-> (index :> new.val) @@ values]

\* The edit reaches the range test and fails it: "Value out of range".
out_of_range(index, parameters, raw_input_val) ==
    LET k   == PyIndex(Len(parameters), index)
        new == int10(raw_input_val)
    IN  /\ k # 0
        /\ new.ok
        /\ ~(/\ IntLE(type_bounds(parameters[k]["Data type"])[1], new.val)
             /\ IntLE(new.val, type_bounds(parameters[k]["Data type"])[2]))

\* The parameter loop's numeric action: idx = int(action), then the edit and,
\* when it changed a value, the entry of unsaved_changes.  probe keeps the
\* last edit refused as out of range (the definition's type, the value
\* refused and the value the index held) until an edit succeeds.
ConsoleEdit(action, raw_input_val) ==
    /\ shell = "console" /\ pc = "params"
    /\ Tick
    /\ LET idx == int10(action)
           r   == prompt_edit_parameter(Plain(idx.val), current_params,
                                        current_values, raw_input_val)
       IN  IF idx.ok /\ r.changed
           THEN /\ current_values' = r.values
                /\ unsaved_changes' = Put(unsaved_changes, current_category,
                                          current_params, r.values)
                /\ last' = Op("edit", TRUE, 0)
                /\ probe' = NoProbe
           ELSE /\ last' = Op("edit", FALSE, 0)
                /\ UNCHANGED <<current_values, unsaved_changes>>
                /\ probe' =
                       IF idx.ok /\ out_of_range(Plain(idx.val), current_params,
                                                 raw_input_val)
                       THEN [op       |-> "rejected",
                             param    |-> current_params[PyIndex(Len(current_params),
                                                                 Plain(idx.val))],
                             value    |-> int10(raw_input_val).val,
                             held     |-> IF Plain(idx.val) \in DOMAIN current_values
                                          THEN current_values[Plain(idx.val)]
                                          ELSE None]
                       ELSE probe
    /\ UNCHANGED <<shell, pc, disk, exe_path, version, parameters_by_category,
                   current_category, current_params, checked_parameters,
                   param_table, current_row, csv_file>>

\* [b]: back to the category menu.  The loop's locals (selected_category,
\* valid_params, current_values) are dead from here on: the next selection
\* assigns them before any use, so they are reset.
ConsoleBack ==
    /\ shell = "console" /\ pc = "params"
    /\ Tick
    /\ pc' = "menu"
    /\ current_category' = Unset
    /\ current_params' = << >>
    /\ current_values' = << >>
    /\ last' = Op("back", TRUE, 0)
    /\ UNCHANGED <<shell, disk, exe_path, version, parameters_by_category,
                   unsaved_changes, checked_parameters, param_table, current_row, csv_file, probe>>

\* A save that leaves unsaved_changes as it is.
ConsoleSaveKeeping ==
    /\ shell = "console" /\ pc = "menu"
    /\ Tick
    /\ IF unsaved_changes = << >>
       THEN /\ last' = Op("save", FALSE, 0)
            /\ UNCHANGED <<pc, disk>>
       ELSE \E w \in {SaveEntries(shell, unsaved_changes, disk[exe_path], version, 1)} :
                /\ disk' = [disk EXCEPT ![exe_path] = w.file]
                /\ pc' = IF w.raised THEN "crashed" ELSE "menu"
                /\ last' = Op("save", ~w.raised, 0)
    /\ UNCHANGED <<shell, exe_path, version, parameters_by_category, unsaved_changes,
                   current_category, current_params, current_values,
                   checked_parameters, param_table, current_row, csv_file, probe>>

\* [s]: every entry is saved, then unsaved_changes is cleared; a write that
\* raises ends the program with the earlier writes in the file
ConsoleSave ==
    /\ shell = "console" /\ pc = "menu"
    /\ Tick
    /\ IF unsaved_changes = << >>
       THEN /\ last' = Op("save", FALSE, 0)
            /\ UNCHANGED <<pc, disk, unsaved_changes>>
       ELSE \E w \in {SaveEntries(shell, unsaved_changes, disk[exe_path], version, 1)} :
                /\ disk' = [disk EXCEPT ![exe_path] = w.file]
                /\ pc' = IF w.raised THEN "crashed" ELSE "menu"
                /\ unsaved_changes' = IF w.raised THEN unsaved_changes ELSE << >>
                /\ last' = Op("save", ~w.raised, 0)
    /\ UNCHANGED <<shell, exe_path, version, parameters_by_category,
                   current_category, current_params, current_values,
                   checked_parameters, param_table, current_row, csv_file, probe>>

\* [q]: with unsaved changes the user may have them saved; the program ends
ConsoleQuit(answer) ==
    /\ shell = "console" /\ pc = "menu"
    /\ Tick
    /\ IF unsaved_changes # << >> /\ answer = "y"
       THEN \E w \in {SaveEntries(shell, unsaved_changes, disk[exe_path], version, 1)} :
                /\ disk' = [disk EXCEPT ![exe_path] = w.file]
                /\ pc' = IF w.raised THEN "crashed" ELSE "exited"
                /\ last' = Op("quit", ~w.raised, 0)
       ELSE /\ pc' = "exited"
            /\ last' = Op("quit", TRUE, 0)
            /\ UNCHANGED disk
    /\ UNCHANGED <<shell, exe_path, version, parameters_by_category,
                   unsaved_changes, current_category, current_params,
                   current_values, checked_parameters, param_table, current_row, csv_file, probe>>

\* What the user types in the parameter loop: <<action, new value>>.
ConsoleEditInputs ==
    ({<<"0">>} \X {str(PyInt(7)), str(PyInt(300)), str(PyInt(70000)),
                   str(PyInt(-1)), <<"x">>})
    \cup ({<<"1">>} \X {str(PyInt(7)), str(PyInt(300)), str(<<65536, 0>>)})
    \cup ({<<"2">>, <<"-", "1">>, <<"x">>} \X {str(PyInt(7))})

ConsoleNext ==
    \/ ConsoleStart
    \/ \E choice \in (-1)..Len(parameters_by_category) : ConsoleSelect(choice)
    \/ \E in \in ConsoleEditInputs : ConsoleEdit(in[1], in[2])
    \/ ConsoleBack
    \/ ConsoleSave
    \/ \E answer \in {"y", "n"} : ConsoleQuit(answer)


(***************************************************************************)
(* The Qt editor: PhysicsEditorGUI of icr2edit.py.  An exception that      *)
(* leaves a slot ends the program (pc = "crashed").                        *)
(***************************************************************************)
IntMax == <<32767, 65535>>      \* 2147483647

IntMin == <<-32768, 0>>         \* -2147483648

\* The range populate_params gives a parameter's spin box.
spin_range(param) ==
    LET b == type_bounds(param["Data type"])
    IN  <<b[1], IF IntLE(b[2], IntMax) THEN b[2] ELSE IntMax>>

\* QSpinBox.setValue takes a C int: None is a TypeError, a wider int an
\* OverflowError
Displayable(v) == IsInt(v) /\ IntLE(IntMin, v) /\ IntLE(v, IntMax)

\* The value the spin box then holds: setValue clamps to the range.
Clamp(v, range) ==
    IF IntLE(v, range[1]) THEN range[1]
    ELSE IF IntLE(range[2], v) THEN range[2] ELSE v

\* populate_params for the category cat, its filtered list and the values
\* to show: the spin boxes it builds (up to the first value setValue
\* refuses), the file reads issued so far and whether anything raised.  It
\* reads the whole list once (original_values) and once more per row.
populate_params(cat, valid, vals, reads, raised) ==
    LET n     == Len(valid)
        bad   == {i \in 0..(n - 1) : ~Displayable(ValueAt(vals, i))}
        shown == IF bad = {} THEN n ELSE CHOOSE i \in bad : \A j \in bad : i <= j
    IN  [category |-> cat,
         params   |-> valid,
         values   |-> vals,
         table    |-> [i \in 1..shown |->
                         Clamp(ValueAt(vals, i - 1), spin_range(valid[i]))],
         reads    |-> reads + n + n * n,
         raised   |-> raised \/ bad # {}]

\* A selection that reads the values from the file whatever uc holds.
SelectFromFile(cat, valid, kept, uc, init) ==
    populate_params(cat, valid, init.values, Len(valid), init.raised)

\* unsaved_changes.get(category, (None, None))[1] or load_initial_values(...)
SelectValues(cat, valid, kept, uc, init) ==
    populate_params(cat, valid,
                    IF kept THEN Entry(uc, cat).values ELSE init.values,
                    IF kept THEN 0 ELSE Len(valid),
                    init.raised)

SelectCategory(cat, valid, uc) ==
    SelectValues(cat, valid, Has(uc, cat) /\ Entry(uc, cat).values # << >>, uc,
                 load_initial_values(shell, valid, disk[exe_path], version))

\* on_category_select(index) under the ChangeSet uc: what it assigns, the
\* file reads it issues, and whether it raised
on_category_select(index, uc) ==
    SelectCategory(parameters_by_category[index + 1].category,
                   filter_parameters(shell, parameters_by_category[index + 1].rows,
                                     version),
                   uc)

\* An open that goes on with a file whose size the table does not list.
open_unidentified(path) ==
    /\ shell = "gui" /\ pc = "idle"
    /\ Tick
    /\ exe_path' = path
    /\ version' = identify_icr2_version(shell, disk[path])
    /\ parameters_by_category' = load_parameters_by_category(CatalogRows)
    /\ unsaved_changes' = << >>
    /\ current_row' = -1
    /\ param_table' = << >>
    /\ last' = Op("open", version' # NoVersion, 0)
    /\ UNCHANGED <<shell, pc, disk, current_category, current_params,
                   current_values, checked_parameters, csv_file, probe>>

\* File > Open: the chosen file is identified; an unrecognized size ends the
\* handler, otherwise the catalog is loaded and the session starts afresh
open_exe(path) ==
    /\ shell = "gui" /\ pc = "idle"
    /\ Tick
    /\ LET v == identify_icr2_version(shell, disk[path])
       IN  IF v = NoVersion
           THEN /\ last' = Op("open", FALSE, 0)
                /\ UNCHANGED <<exe_path, version, parameters_by_category,
                               unsaved_changes, param_table, current_row>>
           ELSE /\ exe_path' = path
                /\ version' = v
                /\ parameters_by_category' = load_parameters_by_category(CatalogRows)
                /\ unsaved_changes' = << >>
                /\ current_row' = -1
                /\ param_table' = << >>
                /\ last' = Op("open", TRUE, 0)
    /\ UNCHANGED <<shell, pc, disk, current_category, current_params,
                   current_values, checked_parameters, csv_file, probe>>

\* The user picks another row of the category list.
GuiSelect(index) ==
    /\ shell = "gui" /\ pc = "idle" /\ exe_path # NoPath
    /\ Tick
    /\ index \in 0..(Len(parameters_by_category) - 1) /\ index # current_row
    /\ \E r \in {on_category_select(index, unsaved_changes)} :
           /\ current_row' = index
           /\ current_category' = r.category
           /\ current_params' = r.params
           /\ current_values' = r.values
           /\ param_table' = r.table
           /\ pc' = IF r.raised THEN "crashed" ELSE "idle"
           /\ last' = Op("select", ~r.raised, r.reads)
    /\ UNCHANGED <<shell, disk, exe_path, version, parameters_by_category,
                   unsaved_changes, checked_parameters, csv_file, probe>>

\* populate_params.on_change: the user changes the spin box of a row
on_change(row, val) ==
    /\ shell = "gui" /\ pc = "idle"
    /\ Tick
    /\ row \in 0..(Len(param_table) - 1)
    /\ LET range == spin_range(current_params[row + 1])
       IN  IntLE(range[1], val) /\ IntLE(val, range[2])
    /\ val # param_table[row + 1]
    /\ param_table' = [param_table EXCEPT ![row + 1] = val]
    /\ current_values' = (row :> val) @@ current_values
    /\ unsaved_changes' = Put(unsaved_changes, current_category, current_params,
                              (row :> val) @@ current_values)
    /\ last' = Op("edit", TRUE, 0)
    /\ UNCHANGED <<shell, pc, disk, exe_path, version, parameters_by_category,
                   current_category, current_params, checked_parameters,
                   current_row, csv_file, probe>>

\* File > Save
save_all ==
    /\ shell = "gui" /\ pc = "idle"
    /\ Tick
    /\ IF unsaved_changes = << >>
       THEN /\ last' = Op("save", FALSE, 0)
            /\ UNCHANGED <<pc, disk, unsaved_changes>>
       ELSE \E w \in {SaveEntries(shell, unsaved_changes, disk[exe_path], version, 1)} :
                /\ disk' = [disk EXCEPT ![exe_path] = w.file]
                /\ pc' = IF w.raised THEN "crashed" ELSE "idle"
                /\ unsaved_changes' = IF w.raised THEN unsaved_changes ELSE << >>
                /\ last' = Op("save", ~w.raised, 0)
    /\ UNCHANGED <<shell, exe_path, version, parameters_by_category,
                   current_category, current_params, current_values,
                   checked_parameters, param_table, current_row, csv_file, probe>>

\* File > Revert, confirmed: everything is cleared and the first category is
\* selected again (category_list.clear() leaves no current row, so
\* setCurrentRow(0) runs on_category_select(0))
revert_all_changes ==
    /\ shell = "gui" /\ pc = "idle"
    /\ Tick
    /\ exe_path # NoPath /\ parameters_by_category # << >>
    /\ \E r \in {on_category_select(0, << >>)} :
           /\ unsaved_changes' = << >>
           /\ current_row' = 0
           /\ current_category' = r.category
           /\ current_params' = r.params
           /\ current_values' = r.values
           /\ param_table' = r.table
           /\ pc' = IF r.raised THEN "crashed" ELSE "idle"
           /\ last' = Op("revert", ~r.raised, r.reads)
    /\ UNCHANGED <<shell, disk, exe_path, version, parameters_by_category,
                   checked_parameters, csv_file, probe>>

\* closeEvent: with unsaved changes the user saves, discards or cancels; an
\* accepted close ends the program, and with it the session
closeEvent(reply) ==
    /\ shell = "gui" /\ pc = "idle"
    /\ Tick
    /\ IF unsaved_changes # << >> /\ reply = "Cancel"
       THEN /\ last' = Op("close", FALSE, 0)
            /\ UNCHANGED <<pc, disk, exe_path, version, parameters_by_category,
                           unsaved_changes, current_category, current_params,
                           current_values, checked_parameters, param_table,
                           current_row>>
       ELSE \E w \in {IF unsaved_changes # << >> /\ reply = "Save"
                      THEN SaveEntries(shell, unsaved_changes, disk[exe_path], version, 1)
                      ELSE [raised |-> FALSE, file |-> << >>]} :
                /\ disk' = IF w.file = << >> THEN disk
                           ELSE [disk EXCEPT ![exe_path] = w.file]
                /\ pc' = IF w.raised THEN "crashed" ELSE "closed"
                /\ last' = Op("close", ~w.raised, 0)
                /\ exe_path' = NoPath
                /\ version' = NoVersion
                /\ parameters_by_category' = << >>
                /\ unsaved_changes' = << >>
                /\ current_category' = Unset
                /\ current_params' = << >>
                /\ current_values' = << >>
                /\ checked_parameters' = << >>
                /\ param_table' = << >>
                /\ current_row' = -1
    /\ UNCHANGED <<shell, csv_file, probe>>

\* The values the user sets a spin box to.
GuiSpinValues == {PyInt(7), PyInt(9), PyInt(300)}

GuiNext ==
    \/ \E path \in Paths : open_exe(path)
    \/ \E index \in 0..2 : GuiSelect(index)
    \/ \E row \in 0..1, val \in GuiSpinValues : on_change(row, val)
    \/ save_all
    \/ revert_all_changes
    \/ \E reply \in {"Save", "Discard", "Cancel"} : closeEvent(reply)

Next == ConsoleNext \/ GuiNext

Spec == Init /\ [][Next]_vars

(***************************************************************************)
(* Export and import of parameter values (the Qt editor).  The exported    *)
(* file is a sequence of rows with the columns DOS address, Windy address, *)
(* Rendition address, Length and Value; it outlives the program, so a      *)
(* later run can import what an earlier one exported.                      *)
(***************************************************************************)
\* checked_parameters.get(cat, set())
Checked(cp, cat) == IF Has(cp, cat) THEN Entry(cp, cat).rows ELSE {}

\* on_checkbox_change: the user ticks or clears the checkbox of a row
on_checkbox_change(row, checked) ==
    /\ shell = "gui" /\ pc = "idle"
    /\ Tick
    /\ row \in 0..(Len(param_table) - 1)
    /\ checked # (row \in Checked(checked_parameters, current_category))
    /\ LET old  == Checked(checked_parameters, current_category)
           rows == IF checked THEN old \cup {row} ELSE old \ {row}
       IN  checked_parameters' =
               IF Has(checked_parameters, current_category)
               THEN [k \in 1..Len(checked_parameters) |->
                       IF checked_parameters[k].category = current_category
                       THEN [checked_parameters[k] EXCEPT !.rows = rows]
                       ELSE checked_parameters[k]]
               ELSE Append(checked_parameters,
                           [category |-> current_category, rows |-> rows])
    /\ last' = Op("check", TRUE, 0)
    /\ UNCHANGED <<shell, pc, disk, exe_path, version, parameters_by_category,
                   unsaved_changes, current_category, current_params,
                   current_values, param_table, current_row, csv_file, probe>>

\* The elements of a set of small integers in the order Python iterates them.
RECURSIVE Ascending(_)
Ascending(S) ==
    IF S = {} THEN << >>
    ELSE LET m == CHOOSE x \in S : \A y \in S : x <= y
         IN  <<m>> \o Ascending(S \ {m})

\* writer.writerow({...}): the offsets and the length trimmed, the value as
\* the csv module writes it (None as the empty string)
export_row(param, value) ==
    [f \in {"DOS address", "Windy address", "Rendition address", "Length", "Value"} |->
        IF f = "Value" THEN (IF value = None THEN << >> ELSE str(value))
        ELSE Strip(Get(param, f))]

\* The rows export writes for one category: the checked rows that exist in
\* its filtered list, with the values of vals
export_category(valid, vals, selected) ==
    LET own == SelectSeq(Ascending(selected), LAMBDA i : i < Len(valid))
    IN  [j \in 1..Len(own) |-> export_row(valid[own[j] + 1], ValueAt(vals, own[j]))]

\* export_selected_parameters from the k-th entry of checked_parameters on:
\* [raised, rows, reads]
RECURSIVE export_entries(_, _, _)
export_entries(cp, uc, k) ==
    IF k > Len(cp) THEN [raised |-> FALSE, rows |-> << >>, reads |-> 0]
    ELSE IF cp[k].rows = {} THEN export_entries(cp, uc, k + 1)
    ELSE LET cat   == cp[k].category
             raw   == IF Has(parameters_by_category, cat)
                      THEN Entry(parameters_by_category, cat).rows ELSE << >>
             valid == filter_parameters(shell, raw, version)
             kept  == Has(uc, cat) /\ Entry(uc, cat).values # << >>
             init  == load_initial_values(shell, valid, disk[exe_path], version)
             rest  == export_entries(cp, uc, k + 1)
         IN  IF ~kept /\ init.raised
             THEN [raised |-> TRUE, rows |-> << >>, reads |-> 0]
             ELSE [raised |-> rest.raised,
                   rows   |-> export_category(valid,
                                  IF kept THEN Entry(uc, cat).values ELSE init.values,
                                  cp[k].rows) \o rest.rows,
                   reads  |-> (IF kept THEN 0 ELSE Len(valid)) + rest.reads]

\* File > Export Selected Parameters
export_selected_parameters ==
    /\ shell = "gui" /\ pc = "idle"
    /\ Tick
    /\ IF checked_parameters = << >>
       THEN /\ last' = Op("export", FALSE, 0)
            /\ UNCHANGED <<pc, csv_file, probe>>
       ELSE \E x \in {export_entries(checked_parameters, unsaved_changes, 1)} :
                /\ csv_file' = x.rows
                /\ pc' = IF x.raised THEN "crashed" ELSE "idle"
                /\ last' = Op("export", ~x.raised, x.reads)
                /\ probe' = [op |-> "export", version |-> version,
                             changes |-> unsaved_changes,
                             checked |-> checked_parameters]
    /\ UNCHANGED <<shell, disk, exe_path, version, parameters_by_category,
                   unsaved_changes, current_category, current_params,
                   current_values, checked_parameters, param_table, current_row>>

\* The key import builds for a row of the file and for a definition alike.
import_key(row) ==
    <<Upper(Strip(Get(row, "DOS address"))), Upper(Strip(Get(row, "Windy address"))),
      Upper(Strip(Get(row, "Rendition address"))), Strip(Get(row, "Length"))>>

\* imported_map: key -> int(Value) over the rows whose Value parses; of two
\* rows with one key the later wins
imported_map(rows) ==
    LET good == {i \in 1..Len(rows) : int10(Get(rows[i], "Value")).ok}
        kept == {i \in good : \A j \in good :
                                 import_key(rows[j]) = import_key(rows[i]) => j <= i}
    IN  {<<import_key(rows[i]), int10(Get(rows[i], "Value")).val>> : i \in kept}

\* The rows of one category from index i on, with vals the category's fresh
\* values so far.  A match sets the value; in the displayed category it also
\* sets the row's spin box, whose valueChanged runs on_change.
RECURSIVE import_rows(_, _, _, _, _, _, _)
import_rows(m, st, cat, valid, vals, i, changed) ==
    IF i >= Len(valid)
    THEN IF changed
         THEN [st EXCEPT !.uc = Put(st.uc, cat, valid, vals),
                         !.cv = IF cat = current_category THEN vals ELSE st.cv]
         ELSE st
    ELSE IF ~ \E e \in m : e[1] = import_key(valid[i + 1])
    THEN import_rows(m, st, cat, valid, vals, i + 1, changed)
    ELSE LET value == Lookup(m, import_key(valid[i + 1]), None)
             vals2 == [vals EXCEPT ![i] = value]
             st2   == [st EXCEPT !.updated = @ + 1]
             shown == Clamp(value, spin_range(valid[i + 1]))
             live  == (i :> shown) @@ st.cv
         IN  IF current_category = Unset
             THEN [st2 EXCEPT !.raised = TRUE]           \* AttributeError
             ELSE IF cat # current_category \/ i >= Len(st.table)
             THEN import_rows(m, st2, cat, valid, vals2, i + 1, TRUE)
             ELSE IF ~Displayable(value)
             THEN [st2 EXCEPT !.raised = TRUE]           \* OverflowError
             ELSE IF shown = st.table[i + 1]
             THEN import_rows(m, st2, cat, valid, vals2, i + 1, TRUE)
             ELSE import_rows(m,
                      [st2 EXCEPT !.table[i + 1] = shown,
                                  !.cv = live,
                                  !.uc = Put(st.uc, current_category,
                                             current_params, live)],
                      cat, valid, vals2, i + 1, TRUE)

\* The categories from the k-th on: each one's values are read afresh from
\* the file, whatever unsaved_changes holds for it.
RECURSIVE import_categories(_, _, _)
import_categories(m, st, k) ==
    IF k > Len(parameters_by_category) THEN st
    ELSE LET cat   == parameters_by_category[k].category
             valid == filter_parameters(shell, parameters_by_category[k].rows, version)
             init  == load_initial_values(shell, valid, disk[exe_path], version)
             done  == import_rows(m, [st EXCEPT !.reads = @ + Len(valid)],
                                  cat, valid, init.values, 0, FALSE)
         IN  IF init.raised THEN [st EXCEPT !.raised = TRUE]
             ELSE IF done.raised THEN done
             ELSE import_categories(m, done, k + 1)

\* An import that writes the values it has applied through to the file.
import_writing(rows) ==
    /\ shell = "gui" /\ pc = "idle"
    /\ Tick
    /\ IF parameters_by_category = << >> \/ imported_map(rows) = {}
       THEN /\ last' = Op("import", FALSE, 0)
            /\ probe' = [op |-> "import", updated |-> 0]
            /\ UNCHANGED <<pc, disk, unsaved_changes, current_values, param_table>>
       ELSE \E st \in {import_categories(imported_map(rows),
                           [uc |-> unsaved_changes, cv |-> current_values,
                            table |-> param_table, updated |-> 0, reads |-> 0,
                            raised |-> FALSE], 1)} :
                /\ unsaved_changes' = st.uc
                /\ current_values' = st.cv
                /\ param_table' = st.table
                /\ disk' = [disk EXCEPT ![exe_path] =
                               SaveEntries(shell, st.uc, disk[exe_path], version, 1).file]
                /\ pc' = IF st.raised THEN "crashed" ELSE "idle"
                /\ last' = Op("import", ~st.raised, st.reads)
                /\ probe' = [op |-> "import", updated |-> st.updated]
    /\ UNCHANGED <<shell, exe_path, version, parameters_by_category,
                   current_category, current_params, checked_parameters,
                   current_row, csv_file>>

\* File > Import Parameter Values, for the rows of the chosen file
import_parameter_values(rows) ==
    /\ shell = "gui" /\ pc = "idle"
    /\ Tick
    /\ IF parameters_by_category = << >> \/ imported_map(rows) = {}
       THEN /\ last' = Op("import", FALSE, 0)
            /\ probe' = [op |-> "import", updated |-> 0]
            /\ UNCHANGED <<pc, unsaved_changes, current_values, param_table>>
       ELSE \E st \in {import_categories(imported_map(rows),
                           [uc |-> unsaved_changes, cv |-> current_values,
                            table |-> param_table, updated |-> 0, reads |-> 0,
                            raised |-> FALSE], 1)} :
                /\ unsaved_changes' = st.uc
                /\ current_values' = st.cv
                /\ param_table' = st.table
                /\ pc' = IF st.raised THEN "crashed" ELSE "idle"
                /\ last' = Op("import", ~st.raised, st.reads)
                /\ probe' = [op |-> "import", updated |-> st.updated]
    /\ UNCHANGED <<shell, disk, exe_path, version, parameters_by_category,
                   current_category, current_params, checked_parameters,
                   current_row, csv_file>>

\* The program is started again after it was closed.
main ==
    /\ shell = "gui" /\ pc = "closed"
    /\ Tick
    /\ pc' = "idle"
    /\ last' = Op("init", TRUE, 0)
    /\ UNCHANGED <<shell, disk, exe_path, version, parameters_by_category,
                   unsaved_changes, current_category, current_params,
                   current_values, checked_parameters, param_table,
                   current_row, csv_file, probe>>

\* A file written by hand: a row for "grip" (in lower case, padded), a row
\* whose Value is no integer, and a row no definition matches.
ImportRow(dos, length, value) ==
    [f \in {"DOS address", "Windy address", "Rendition address", "Length", "Value"} |->
        CASE f = "DOS address" -> dos
          [] f = "Length" -> length
          [] f = "Value" -> value
          [] OTHER -> << >>]

HandWritten ==
    <<ImportRow(<<" ">> \o Hex(DosSize - 5), <<"1">>, <<"3">>),
      ImportRow(Hex(DosSize - 4), <<"1">>, <<"x">>),
      ImportRow(<<"F", "F">>, <<"1">>, <<"5">>)>>

ExchangeInit ==
    /\ SessionInit
    /\ disk = SampleDisk
    /\ probe = NoProbe
    /\ ops = 0
    /\ shell = "gui" /\ pc = "idle" /\ exe_path = NoPath

ExchangeNext ==
    \/ open_exe("ICR2.EXE")
    \/ \E index \in 0..2 : GuiSelect(index)
    \/ \E row \in 0..1 : on_change(row, PyInt(9))
    \/ \E row \in 0..1 : on_checkbox_change(row, TRUE)
    \/ export_selected_parameters
    \/ \E rows \in {csv_file, HandWritten} : import_parameter_values(rows)
    \/ save_all
    \/ revert_all_changes
    \/ \E reply \in {"Save", "Discard"} : closeEvent(reply)
    \/ main

SpecExchange == ExchangeInit /\ [][ExchangeNext]_vars

(***************************************************************************)
(* read_value_from_exe and write_value_to_exe on their own: a bounded      *)
(* number of writes to ICR2.EXE, and reads, with arguments drawn from      *)
(* small sets.                                                             *)
(***************************************************************************)
MaxWrites == 2

IOAddresses ==
    {Hex(DosSize - 4), <<" ", "0", "x", "1", "1", "6", "e", "6", "2", " ">>,
     <<"z", "z">>, <<"-", "1">>, Hex(DosSize + 2)}

IOLengths == {1, 2, 3, 4}

IOValues ==
    {PyInt(0), PyInt(255), PyInt(258), <<65535, 65535>>, <<65536, 0>>, PyInt(-1), None}

IOInit ==
    /\ SessionInit
    /\ disk = SampleDisk
    /\ ops = -1
    /\ shell = "gui" /\ pc = "io" /\ exe_path = "ICR2.EXE"
    /\ probe = [op |-> "init", address |-> << >>, length |-> 0, value |-> None,
                result |-> None, inside |-> FALSE, n |-> 0, changed |-> FALSE]

session == <<shell, pc, exe_path, version, parameters_by_category,
             unsaved_changes, current_category, current_params, current_values,
             checked_parameters, param_table, current_row, csv_file, last>>

\* write_value_to_exe(exe_path, a, length, v); inside records whether the
\* offset lay inside the file when the call was made, changed whether the
\* call left the file other than it was
IOWrite(a, length, v) ==
    /\ pc = "io" /\ probe.n < MaxWrites
    /\ Tick
    /\ \E w \in {write_value_to_exe(disk[exe_path], a, length, v)} :
           /\ disk' = [disk EXCEPT ![exe_path] = w.file]
           /\ probe' = [op |-> "write", address |-> a, length |-> length,
                        value |-> v,
                        result |-> IF w.raised THEN Raised ELSE None,
                        inside |-> /\ int16(a).ok
                                   /\ 0 <= int16(a).val
                                   /\ int16(a).val < FileSize(disk[exe_path]),
                        n |-> probe.n + 1,
                        changed |-> w.file # disk[exe_path]]
    /\ UNCHANGED session

\* read_value_from_exe(exe_path, a, length)
IORead(a, length) ==
    /\ pc = "io"
    /\ Tick
    /\ probe' = [probe EXCEPT !.op = "read", !.address = a, !.length = length,
                              !.inside = FALSE,
                              !.changed = FALSE,
                              !.result = read_value_from_exe(disk[exe_path], a, length)]
    /\ UNCHANGED <<disk, session>>

IONext ==
    \/ \E a \in IOAddresses, length \in IOLengths, v \in IOValues : IOWrite(a, length, v)
    \/ \E a \in IOAddresses, length \in IOLengths : IORead(a, length)

SpecIO == IOInit /\ [][IONext]_vars

(***************************************************************************)
(* C1: a value of 1, 2 or 4 bytes that fits its width, written at a valid  *)
(* hexadecimal offset inside the file, is what a read of the same offset   *)
(* and width then returns.                                                 *)
(***************************************************************************)
C1_WriteReadRoundTrip ==
    (/\ probe.op = "write"
     /\ probe.inside
     /\ probe.length \in {1, 2, 4}
     /\ Representable(probe.value, probe.length))
    => /\ probe.result = None
       /\ read_value_from_exe(disk[exe_path], probe.address, probe.length)
              = probe.value

\* A four-byte write of 0xFFFFFFFF that began inside the file and grew it.
C1_Witness ==
    /\ probe.op = "write"
    /\ probe.inside
    /\ probe.length = 4
    /\ probe.value = <<65535, 65535>>
    /\ FileSize(disk[exe_path]) > DosSize

(***************************************************************************)
(* Version identification on its own: BAD.EXE takes every size within      *)
(* IdentSpread bytes of a size some table lists (and the empty file), and  *)
(* the two editors identify the files: the console editor the file of its  *)
(* command line, the Qt editor the files the user opens, one after the     *)
(* other.                                                                  *)
(***************************************************************************)
IdentSpread == 2

IdentSizes ==
    {e[1] + d : e \in EXE_VERSIONS("gui"), d \in (-IdentSpread)..IdentSpread} \cup {0}

IdentInit ==
    /\ EditorInit
    /\ \E s \in IdentSizes :
           disk = [SampleDisk EXCEPT !["BAD.EXE"] =
                      [base |-> s - Min(s, 2), data |-> [i \in 1..Min(s, 2) |-> 0]]]

IdentNext ==
    \/ ConsoleStart
    \/ \E path \in Paths : open_exe(path)

SpecIdent == IdentInit /\ [][IdentNext]_vars

\* The sizes the running editor's version table lists.
KnownSizes == {e[1] : e \in EXE_VERSIONS(shell)}

(***************************************************************************)
(* C2: identification is an exact match of the file's length against the   *)
(* version table.  A file of 1142371 bytes is dos100 and one of 1916928    *)
(* bytes is windy101; a file whose length the table does not list gets no  *)
(* version, however near a listed length it is: the console editor ends    *)
(* with no version, and the Qt editor reports the failure and keeps the    *)
(* file and version it had.                                                *)
(***************************************************************************)
C2_IdentifyExactMatch ==
    [][/\ ConsoleStart =>
            /\ FileSize(disk[exe_path]) = 1142371 => version' = "dos100" /\ pc' = "menu"
            /\ FileSize(disk[exe_path]) = 1916928 => version' = "windy101" /\ pc' = "menu"
            /\ FileSize(disk[exe_path]) \notin KnownSizes
                   => version' = NoVersion /\ pc' = "exited" /\ ~last'.ok
       /\ \A path \in Paths : open_exe(path) =>
            /\ FileSize(disk[path]) = 1142371
                   => version' = "dos100" /\ exe_path' = path /\ last'.ok
            /\ FileSize(disk[path]) = 1916928
                   => version' = "windy101" /\ exe_path' = path /\ last'.ok
            /\ FileSize(disk[path]) \notin KnownSizes
                   => ~last'.ok /\ version' = version /\ exe_path' = exe_path]_vars

\* The Qt editor has refused a file one byte longer than the windy101 size,
\* after it had opened the dos100 file.
C2_Witness ==
    /\ shell = "gui"
    /\ FileSize(disk["BAD.EXE"]) = 1916928 + 1
    /\ last = Op("open", FALSE, 0)
    /\ version = "dos100"

(***************************************************************************)
(* filter_parameters on its own: lists of up to MaxDefs definitions drawn  *)
(* from FilterRows, filtered for every version tag (and for no version).   *)
(***************************************************************************)
MaxDefs == 3

FilterRows ==
    {Row("Engine", "a", "UInt8", <<"1">>, <<"1", "F">>, << >>, << >>, << >>),
     Row("Engine", "b", "UInt8", <<"1">>, <<"N", "/", "A">>, <<" ", "2", "a", " ">>,
         << >>, <<"7">>),
     Row("Engine", "c", "UInt8", <<"1">>, <<"0", "x", "1", "F">>, <<"G", "1">>,
         <<"-", "1">>, <<"z", "z">>),
     Row("Engine", "d", "UInt8", <<"1">>, <<" ">>, <<"1", "F">>, <<"1", " ", "F">>,
         <<"1", "F">>),
     [f \in {"Category", "Description", "DOS address"} |->
         CASE f = "Category" -> "Engine"
           [] f = "Description" -> "e"
           [] f = "DOS address" -> <<"2", "B">>]}

FilterLists == UNION {[1..n -> FilterRows] : n \in 0..MaxDefs}

FilterVersions == {"dos100", "dos102", "windy101", "rend102", "rend32A", NoVersion}

FilterInit ==
    /\ SessionInit
    /\ disk = SampleDisk
    /\ ops = -1
    /\ shell \in {"console", "gui"} /\ pc = "filter" /\ exe_path = NoPath
    /\ \E defs \in FilterLists, ver \in FilterVersions :
           probe = [op |-> "init", definitions |-> defs, version |-> ver,
                    result |-> << >>]

\* filter_parameters(definitions, version)
FilterApply ==
    /\ pc = "filter" /\ probe.op = "init"
    /\ Tick
    /\ probe' = [probe EXCEPT !.op = "filter",
                              !.result = filter_parameters(shell, probe.definitions,
                                                           probe.version)]
    /\ UNCHANGED <<disk, session>>

SpecFilter == FilterInit /\ [][FilterApply]_vars

\* The offset column of a version tag.
OffsetColumn(ver) ==
    CASE ver \in {"dos100", "dos102"} -> "DOS address"
      [] ver = "windy101" -> "Windy address"
      [] ver = "rend102" -> "Rendition address"
      [] ver = "rend32A" -> "Rendition DOS32A"

\* The definition has an offset for the version that parses as hexadecimal.
HasHexOffset(p, ver) ==
    /\ OffsetColumn(ver) \in DOMAIN p
    /\ int16(p[OffsetColumn(ver)]).ok

(***************************************************************************)
(* C3: an edit whose new value lies outside [0, 2^(8*length)-1], for the   *)
(* byte length save encodes the parameter with, is refused: the edit       *)
(* fails, the value at the index stays and unsaved_changes stays.          *)
(***************************************************************************)
C3_EditRejectsOutOfRange ==
    [][\A in \in ConsoleEditInputs :
          (/\ ConsoleEdit(in[1], in[2])
           /\ int10(in[1]).ok
           /\ Plain(int10(in[1]).val) \in 0..(Len(current_params) - 1)
           /\ int10(in[2]).ok
           /\ ~Representable(int10(in[2]).val,
                             param_length(current_params[Plain(int10(in[1]).val) + 1])))
          => /\ ~last'.ok
             /\ current_values' = current_values
             /\ unsaved_changes' = unsaved_changes]_vars

\* A category that has an entry of unsaved_changes has just been selected.
Reactivated ==
    /\ last.op = "select"
    /\ current_category # Unset
    /\ Has(unsaved_changes, current_category)

\* The value v lies in the range a spin box has.
InRange(v, range) == IsInt(v) /\ IntLE(range[1], v) /\ IntLE(v, range[2])

ExportedAll ==
    /\ probe.op = "export"
    /\ probe.changes # << >>
    /\ \A k \in 1..Len(probe.changes) :
           \A i \in DOMAIN probe.changes[k].values :
               /\ i \in Checked(probe.checked, probe.changes[k].category)
               /\ i < Len(probe.changes[k].params)

(***************************************************************************)
(* C5: when every (category, index) of the ChangeSet was exported, an      *)
(* import of the exported file into a session on the same version gives    *)
(* every such (category, index) the current value the ChangeSet had for    *)
(* it (the value of unsaved_changes, or the file's where the category has  *)
(* no entry).                                                              *)
(***************************************************************************)
C5_ExportImportRoundTrip ==
    [][(/\ ExportedAll
        /\ version = probe.version
        /\ import_parameter_values(csv_file))
       => \A k \in 1..Len(probe.changes) :
              \A i \in DOMAIN probe.changes[k].values :
                  probe.changes[k].values[i] =
                      IF Has(unsaved_changes', probe.changes[k].category)
                      THEN Entry(unsaved_changes', probe.changes[k].category).values[i]
                      ELSE load_initial_values(shell, probe.changes[k].params,
                                               disk[exe_path], version).values[i]]_vars

(***************************************************************************)
(* The round trip of C5 in a session that has selected a category before   *)
(* the import: there every exported (category, index) gets its value back. *)
(***************************************************************************)
RoundTripAfterSelection ==
    [][(/\ ExportedAll
        /\ version = probe.version
        /\ current_category # Unset
        /\ import_parameter_values(csv_file))
       => \A k \in 1..Len(probe.changes) :
              \A i \in DOMAIN probe.changes[k].values :
                  probe.changes[k].values[i] =
                      IF Has(unsaved_changes', probe.changes[k].category)
                      THEN Entry(unsaved_changes', probe.changes[k].category).values[i]
                      ELSE load_initial_values(shell, probe.changes[k].params,
                                               disk[exe_path], version).values[i]]_vars

\* An increasing choice of positions of defs that yields kept.
IsSublist(kept, defs) ==
    \E f \in [1..Len(kept) -> 1..Len(defs)] :
        /\ \A i \in 1..Len(kept) : kept[i] = defs[f[i]]
        /\ \A i, j \in 1..Len(kept) : i < j => f[i] < f[j]

(***************************************************************************)
(* C6: filter_parameters returns the definitions whose offset in the       *)
(* version's column parses as hexadecimal, and only those, in the order of *)
(* the list: every definition it keeps has such an offset, it keeps as     *)
(* many as the list has, and what it keeps is a sublist of the list.       *)
(***************************************************************************)
C6_FilterKeepsHexOffsets ==
    (/\ probe.op = "filter"
     /\ \E e \in ADDRESS_KEYS(shell) : e[1] = probe.version)
    => /\ \A i \in 1..Len(probe.result) : HasHexOffset(probe.result[i], probe.version)
       /\ Len(probe.result)
              = Cardinality({i \in 1..Len(probe.definitions) :
                                HasHexOffset(probe.definitions[i], probe.version)})
       /\ IsSublist(probe.result, probe.definitions)

\* A list of three that loses its middle definition.
C6_Witness ==
    /\ probe.op = "filter"
    /\ probe.version = "dos100"
    /\ Len(probe.definitions) = 3
    /\ probe.result = <<probe.definitions[1], probe.definitions[3]>>
    /\ probe.definitions[1] # probe.definitions[3]

(***************************************************************************)
(* C7: an edit whose index is an integer outside 0..n-1, for the n         *)
(* definitions of the category's filtered list, fails: current_values      *)
(* gains no key and changes no value, and unsaved_changes stays.           *)
(***************************************************************************)
C7_EditRejectsBadIndex ==
    [][\A in \in ConsoleEditInputs :
          (/\ ConsoleEdit(in[1], in[2])
           /\ int10(in[1]).ok
           /\ Plain(int10(in[1]).val) \notin 0..(Len(current_params) - 1))
          => /\ ~last'.ok
             /\ current_values' = current_values
             /\ unsaved_changes' = unsaved_changes]_vars

\* Some entry of the ChangeSet d holds None for an index of its list.
HoldsNone(d) ==
    \E k \in 1..Len(d) : \E i \in DOMAIN d[k].values : d[k].values[i] = None

(***************************************************************************)
(* C8: a save of a ChangeSet that holds None for some index does not fail, *)
(* and it writes every value that is not None: after it the file holds     *)
(* each of them at its definition's offset.                                *)
(***************************************************************************)
C8_NoneExcludedFromCommit ==
    [][(save_all /\ HoldsNone(unsaved_changes))
       => /\ last'.ok
          /\ pc' = "idle"
          /\ \A k \in 1..Len(unsaved_changes) :
                 \A i \in 0..(Len(unsaved_changes[k].params) - 1) :
                     LET e == unsaved_changes[k]
                     IN  (i \in DOMAIN e.values /\ e.values[i] # None)
                         => read_value_from_exe(disk'[exe_path],
                                param_address(shell, e.params[i + 1], version),
                                param_length(e.params[i + 1])) = e.values[i]]_vars

\* The categories of the catalog.
Categories == {CatalogRows[i]["Category"] : i \in 1..Len(CatalogRows)} \ {""}

(***************************************************************************)
(* C9: while the program runs, a category that has an entry of             *)
(* unsaved_changes keeps one through every step that is not a successful   *)
(* open, a revert or a successful save: edits (back to the file's values   *)
(* too), refused edits and selections leave it in.                         *)
(***************************************************************************)
C9_EntryStaysUntilCleared ==
    [][\A cat \in Categories :
          (/\ Has(unsaved_changes, cat)
           /\ ~(last'.op \in {"open", "save"} /\ last'.ok)
           /\ last'.op \notin {"revert", "close"})
          => Has(unsaved_changes', cat)]_vars

\* An edit has set the values of a category back to the file's, and the
\* category still has its entry.
C9_Witness ==
    /\ last = Op("edit", TRUE, 0)
    /\ Has(unsaved_changes, current_category)
    /\ Entry(unsaved_changes, current_category).values
           = load_initial_values(shell, current_params, disk[exe_path], version).values

\* The last step was a successful open or save, or a revert.
Cleared ==
    \/ last.op \in {"open", "save"} /\ last.ok
    \/ last.op = "revert"

\* The values the next selection of the k-th category would take.
NextActivation(k) ==
    IF shell = "console" THEN select_category(k, unsaved_changes).values
    ELSE on_category_select(k - 1, unsaved_changes).values

(***************************************************************************)
(* C10, amended: after a successful open, a revert and a successful save   *)
(* unsaved_changes is empty, and the next selection of any category takes  *)
(* its values from the file.  (The Qt editor keeps the shown category's    *)
(* current_values over a save, and the last ones over an open.)            *)
(***************************************************************************)
C10_ClearedThenReadFromFile ==
    Cleared =>
        /\ unsaved_changes = << >>
        /\ \A k \in 1..Len(parameters_by_category) :
               NextActivation(k)
                   = load_initial_values(shell,
                         filter_parameters(shell, parameters_by_category[k].rows, version),
                         disk[exe_path], version).values

\* The Qt editor has saved an edit, and the table is still shown.
C10_Witness ==
    /\ shell = "gui"
    /\ last = Op("save", TRUE, 0)
    /\ param_table # << >>
    /\ disk[exe_path] # SampleDisk[exe_path]

(***************************************************************************)
(* C10: after a successful open, a revert and a successful save  *)
(* unsaved_changes is empty and nothing the session held for a category    *)
(* before the step is held after it: current_values is empty or was read   *)
(* from the file by the step.                                              *)
(***************************************************************************)
C10_SessionStateCleared ==
    [][(\/ last'.op \in {"open", "save"} /\ last'.ok
        \/ last'.op = "revert")
       => /\ unsaved_changes' = << >>
          /\ \/ current_values' = << >>
             \/ last'.reads > 0]_vars

\* The definition p has a record among the rows of an imported file.
Matched(rows, p) == \E e \in imported_map(rows) : e[1] = import_key(p)

(***************************************************************************)
(* C11: an import that succeeds changes, of the values unsaved_changes     *)
(* holds, only those whose definition's key matches a record of the file:  *)
(* every entry stays, with every value at an index without a match as it   *)
(* was, and a category none of whose definitions has a match gets no       *)
(* entry.                                                                  *)
(***************************************************************************)
C11_ImportOverwritesOnlyMatches ==
    [][\A rows \in {csv_file, HandWritten} :
          (import_parameter_values(rows) /\ last'.ok)
          => /\ \A k \in 1..Len(unsaved_changes) :
                    /\ Has(unsaved_changes', unsaved_changes[k].category)
                    /\ \A i \in DOMAIN unsaved_changes[k].values :
                           (/\ i \in 0..(Len(unsaved_changes[k].params) - 1)
                            /\ ~Matched(rows, unsaved_changes[k].params[i + 1]))
                           => Entry(unsaved_changes', unsaved_changes[k].category).values[i]
                                  = unsaved_changes[k].values[i]
             /\ \A k \in 1..Len(parameters_by_category) :
                    (/\ ~Has(unsaved_changes, parameters_by_category[k].category)
                     /\ \A j \in 1..Len(parameters_by_category[k].rows) :
                            ~Matched(rows, parameters_by_category[k].rows[j]))
                    => ~Has(unsaved_changes', parameters_by_category[k].category)]_vars

(***************************************************************************)
(* The key of export and import on its own: two definitions with offsets   *)
(* drawn from a small set in each of the catalog's four offset columns,    *)
(* the key import builds for each, and the key it builds for the record    *)
(* export writes for the first.                                            *)
(***************************************************************************)
KeyOffsets == {<< >>, <<" ", "1", "f">>}

KeyRows ==
    {Row("Engine", "k", "UInt8", length, dos, windy, rend, r32) :
        length \in {<<"1">>, <<"2">>}, dos \in KeyOffsets, windy \in KeyOffsets,
        rend \in KeyOffsets, r32 \in KeyOffsets}

KeyInit ==
    /\ SessionInit
    /\ disk = SampleDisk
    /\ ops = -1
    /\ shell = "gui" /\ pc = "key" /\ exe_path = NoPath
    /\ \E a \in KeyRows, b \in KeyRows :
           probe = [op |-> "init", a |-> a, b |-> b, ka |-> << >>, kb |-> << >>,
                    exported |-> << >>]

\* The keys of import_parameter_values and the record of
\* export_selected_parameters for the two definitions
KeyApply ==
    /\ pc = "key" /\ probe.op = "init"
    /\ Tick
    /\ probe' = [probe EXCEPT !.op = "key",
                              !.ka = import_key(probe.a),
                              !.kb = import_key(probe.b),
                              !.exported = import_key(export_row(probe.a, PyInt(9)))]
    /\ UNCHANGED <<disk, session>>

SpecKey == KeyInit /\ [][KeyApply]_vars

\* The offset columns of the catalog, one per entry of ADDRESS_KEYS.
OffsetColumns == {e[2] : e \in ADDRESS_KEYS("gui")}

(***************************************************************************)
(* C12: the key of a definition holds its offset of every offset column    *)
(* of the catalog, trimmed and in upper case, and its length: the record   *)
(* export writes for a definition has the definition's key, and two        *)
(* definitions that differ in the offset of any column have different      *)
(* keys.                                                                   *)
(***************************************************************************)
C12_KeyHoldsEveryOffset ==
    probe.op = "key" =>
        /\ probe.exported = probe.ka
        /\ (\E c \in OffsetColumns :
               Upper(Strip(Get(probe.a, c))) # Upper(Strip(Get(probe.b, c))))
           => probe.ka # probe.kb

(***************************************************************************)
(* C13: an open of a file whose length the version table does not list     *)
(* does not go on: the Qt editor keeps the path, the version, the catalog  *)
(* and unsaved_changes it had, and the console editor ends with no catalog *)
(* loaded.  No file is written but the one that was opened, under the      *)
(* version its length identifies.                                          *)
(***************************************************************************)
C13_UnrecognizedOpenChangesNothing ==
    [][/\ \A path \in Paths :
             (/\ open_exe(path)
              /\ FileSize(disk[path]) \notin KnownSizes)
             => /\ ~last'.ok
                /\ UNCHANGED <<exe_path, version, parameters_by_category,
                               unsaved_changes, current_category, current_params,
                               current_values, param_table, disk>>
       /\ (ConsoleStart /\ FileSize(disk[exe_path]) \notin KnownSizes)
             => /\ pc' = "exited"
                /\ parameters_by_category' = << >>
                /\ UNCHANGED <<unsaved_changes, disk>>
       /\ \A path \in Paths :
             disk'[path] # disk[path]
             => /\ path = exe_path
                /\ version # NoVersion
                /\ version = identify_icr2_version(shell, SampleDisk[path])]_vars

\* The Qt editor has refused BAD.EXE while ICR2.EXE was open with an edit
\* not yet saved.
C13_Witness ==
    /\ shell = "gui"
    /\ last = Op("open", FALSE, 0)
    /\ exe_path = "ICR2.EXE"
    /\ unsaved_changes # << >>

\* The length bytes of the file f from offset on (offset inside the sample).
BytesAt(f, offset, length) == [i \in 1..length |-> f.data[offset - f.base + i]]

(***************************************************************************)
(* C14: read_value_from_exe does not raise.  It returns None for an offset *)
(* string that does not parse as hexadecimal, None when the file has fewer *)
(* than length bytes from the offset on, and otherwise the little-endian   *)
(* unsigned integer of the length bytes at the offset.                     *)
(***************************************************************************)
C14_ReadNeverRaises ==
    probe.op = "read" =>
        /\ probe.result # Raised
        /\ ~int16(probe.address).ok => probe.result = None
        /\ (/\ int16(probe.address).ok
            /\ FileSize(disk[exe_path]) - int16(probe.address).val < probe.length)
           => probe.result = None
        /\ (/\ int16(probe.address).ok
            /\ FileSize(disk[exe_path]) - int16(probe.address).val >= probe.length)
           => probe.result = FromLE(BytesAt(disk[exe_path], int16(probe.address).val,
                                            probe.length))

(***************************************************************************)
(* C15: write_value_to_exe with an offset string that does not parse as    *)
(* hexadecimal returns without raising, whatever the length and the value, *)
(* and leaves the file (its bytes, and so its length) as it was.            *)
(***************************************************************************)
C15_UnparsedOffsetWritesNothing ==
    (probe.op = "write" /\ ~int16(probe.address).ok)
    => /\ probe.result # Raised
       /\ ~probe.changed

\* A write to the offset "zz" of a value one byte cannot hold, after a write
\* that changed the file.
C15_Witness ==
    /\ probe.op = "write"
    /\ ~int16(probe.address).ok
    /\ probe.length = 1 /\ probe.value = <<65536, 0>>
    /\ probe.n = 2
    /\ disk[exe_path] # SampleDisk[exe_path]

\* The value the file holds for the definition param.
FileValue(param) ==
    read_value_from_exe(disk[exe_path], param_address(shell, param, version),
                        param_length(param))

(***************************************************************************)
(* C16: an edit of an index whose definition has the type UInt16 with a    *)
(* value above 0xFFFF fails as out of range and leaves current_values and  *)
(* unsaved_changes as they were; and when the changes are saved next, with *)
(* no edit accepted in between, the file holds at the definition's offset  *)
(* the value the index held before the refused edit.                       *)
(***************************************************************************)
C16_RejectedEditThenCommit ==
    /\ [][\A in \in ConsoleEditInputs :
             (/\ ConsoleEdit(in[1], in[2])
              /\ int10(in[1]).ok
              /\ PyIndex(Len(current_params), Plain(int10(in[1]).val)) # 0
              /\ current_params[PyIndex(Len(current_params),
                                        Plain(int10(in[1]).val))]["Data type"] = "UInt16"
              /\ int10(in[2]).ok
              /\ ~IntLE(int10(in[2]).val, <<0, 65535>>))
             => /\ ~last'.ok
                /\ probe'.op = "rejected"
                /\ UNCHANGED <<current_values, unsaved_changes, disk>>]_vars
    /\ [](( /\ probe.op = "rejected"
            /\ probe.param["Data type"] = "UInt16"
            /\ ~IntLE(probe.value, <<0, 65535>>)
            /\ last.op = "save")
          => FileValue(probe.param) = probe.held)

\* The index was set to 300, an edit to 70000 was refused, and the changes
\* were saved: the file holds 300.
C16_Witness ==
    /\ probe.op = "rejected"
    /\ probe.param["Data type"] = "UInt16"
    /\ probe.value = <<1, 4464>>
    /\ probe.held = PyInt(300)
    /\ last = Op("save", TRUE, 0)
    /\ FileValue(probe.param) = PyInt(300)

(***************************************************************************)
(* C17: the version table pairs lengths and tags one to one: two entries   *)
(* have the same length exactly when they have the same tag.  So the       *)
(* version an editor has identified a file as names the file's length: it  *)
(* is the length of every entry that carries the tag.                      *)
(***************************************************************************)
C17_VersionTableInjective ==
    /\ \A e1 \in EXE_VERSIONS(shell), e2 \in EXE_VERSIONS(shell) :
           (e1[1] = e2[1]) <=> (e1[2] = e2[2])
    /\ (last.op \in {"start", "open"} /\ last.ok)
       => \A e \in EXE_VERSIONS(shell) :
              e[2] = version => e[1] = FileSize(disk[exe_path])

\* The Qt editor has identified the rend32A file, whose length the console
\* editor's table does not list.
C17_Witness ==
    /\ shell = "gui"
    /\ last = Op("open", TRUE, 0)
    /\ version = "rend32A"
    /\ FileSize(disk[exe_path]) = 1109095

\* The step has set index i of the selected category to v and stored the
\* whole of current_values, with the filtered list, as the category's entry.
EditStored(i, v) ==
    /\ i \in DOMAIN current_values' /\ current_values'[i] = v
    /\ \A j \in DOMAIN current_values \ {i} :
           j \in DOMAIN current_values' /\ current_values'[j] = current_values[j]
    /\ Has(unsaved_changes', current_category)
    /\ Entry(unsaved_changes', current_category).values = current_values'
    /\ Entry(unsaved_changes', current_category).params = current_params
    /\ \A j \in 0..(Len(current_params) - 1) :
           j \in DOMAIN Entry(unsaved_changes', current_category).values
    /\ \A k \in 1..Len(unsaved_changes) :
           unsaved_changes[k].category # current_category
           => Entry(unsaved_changes', unsaved_changes[k].category) = unsaved_changes[k]

(***************************************************************************)
(* C18: an edit that succeeds sets the index to the new value and leaves   *)
(* unsaved_changes with an entry for the category that holds the filtered  *)
(* list and the whole of current_values, every index of the list, edited   *)
(* or not; the other entries stay.  An edit that fails, a selection and    *)
(* the way back to the menu leave every stored entry as it is.             *)
(***************************************************************************)
C18_EditStoresFullMap ==
    [][/\ \A in \in ConsoleEditInputs :
             (ConsoleEdit(in[1], in[2]) /\ last'.ok)
             => EditStored(Plain(int10(in[1]).val), int10(in[2]).val)
       /\ \A row \in 0..1, val \in GuiSpinValues :
             on_change(row, val) => EditStored(row, val)
       /\ (\/ last'.op = "edit" /\ ~last'.ok
           \/ last'.op \in {"select", "back"})
          => unsaved_changes' = unsaved_changes]_vars

\* The second index of Engine was edited after the first: the entry holds
\* both values, and the first is not the file's.
C18_Witness ==
    /\ last = Op("edit", TRUE, 0)
    /\ current_category = "Engine"
    /\ Has(unsaved_changes, "Engine")
    /\ Entry(unsaved_changes, "Engine").values = (0 :> PyInt(300)) @@ (1 :> PyInt(7))
    /\ Len(unsaved_changes) = 2

\* The writes a save of the ChangeSet d issues when none fails, in order:
\* entry by entry, index by index, the indices the entry's map holds.
RECURSIVE CommitWrites(_, _)
CommitWrites(d, k) ==
    IF k > Len(d) THEN << >>
    ELSE LET own == SelectSeq([i \in 1..Len(d[k].params) |-> i - 1],
                              LAMBDA i : i \in DOMAIN d[k].values)
         IN  [j \in 1..Len(own) |->
                 [address |-> param_address(shell, d[k].params[own[j] + 1], version),
                  length  |-> param_length(d[k].params[own[j] + 1]),
                  value   |-> d[k].values[own[j]]]]
             \o CommitWrites(d, k + 1)

\* The write w raises.
WriteFails(w) ==
    write_value_to_exe(disk[exe_path], w.address, w.length, w.value).raised

\* The file f after the first n writes of ws.
RECURSIVE AfterWrites(_, _, _)
AfterWrites(f, ws, n) ==
    IF n = 0 THEN f
    ELSE write_value_to_exe(AfterWrites(f, ws, n - 1),
                            ws[n].address, ws[n].length, ws[n].value).file

\* The writes before the first one that fails (all of them when none does).
WritesDone(ws) ==
    IF \E n \in 1..Len(ws) : WriteFails(ws[n])
    THEN (CHOOSE n \in 1..Len(ws) :
              WriteFails(ws[n]) /\ \A m \in 1..(n - 1) : ~WriteFails(ws[m])) - 1
    ELSE Len(ws)

(***************************************************************************)
(* C19: a save is not atomic.  When a write of it fails, the file holds    *)
(* the writes issued before that one and none of the later ones, the save  *)
(* fails and unsaved_changes stays as it was; unsaved_changes is cleared   *)
(* when every write succeeded, and only then.                              *)
(***************************************************************************)
C19_CommitNotAtomic ==
    [][(/\ unsaved_changes # << >>
        /\ last'.op = "save"
        /\ ConsoleSave \/ save_all)
       => /\ disk'[exe_path]
                = AfterWrites(disk[exe_path], CommitWrites(unsaved_changes, 1),
                              WritesDone(CommitWrites(unsaved_changes, 1)))
          /\ IF WritesDone(CommitWrites(unsaved_changes, 1))
                    < Len(CommitWrites(unsaved_changes, 1))
             THEN ~last'.ok /\ unsaved_changes' = unsaved_changes
             ELSE last'.ok /\ unsaved_changes' = << >>]_vars

\* The Qt editor's save has failed at the second value of Engine: the first
\* is in the file, the value of Gears is not, and both entries are kept.
C19_Witness ==
    /\ shell = "gui"
    /\ last = Op("save", FALSE, 0)
    /\ Len(unsaved_changes) = 2
    /\ unsaved_changes[1].category = "Engine"
    /\ unsaved_changes[1].values = (0 :> PyInt(9)) @@ (1 :> PyInt(300))
    /\ FileValue(unsaved_changes[1].params[1]) = PyInt(9)
    /\ unsaved_changes[2].values[0] = PyInt(9)
    /\ FileValue(unsaved_changes[2].params[1]) = PyInt(7)

\* The write probe records had an integer value its length cannot hold.
Unencodable ==
    /\ probe.op = "write"
    /\ IsInt(probe.value)
    /\ ~Representable(probe.value, probe.length)

(***************************************************************************)
(* C20, amended: write_value_to_exe with an integer above 2^(8*length)-1   *)
(* or below 0 leaves the file as it was.  With an offset string that       *)
(* parses as hexadecimal the call raises; with one that does not parse it  *)
(* returns without raising, as for any value.                              *)
(***************************************************************************)
C20_UnencodableWriteLeavesFile ==
    Unencodable =>
        /\ ~probe.changed
        /\ int16(probe.address).ok => probe.result = Raised
        /\ ~int16(probe.address).ok => probe.result = None

\* A four-byte write of 2^32 inside the file has raised, after a write that
\* changed the file.
C20_Witness ==
    /\ Unencodable
    /\ probe.inside
    /\ probe.length = 4 /\ probe.value = <<65536, 0>>
    /\ probe.result = Raised
    /\ probe.n = 2
    /\ disk[exe_path] # SampleDisk[exe_path]

(***************************************************************************)
(* C20: write_value_to_exe with an integer above 2^(8*length)-1 or below 0 *)
(* raises, and leaves the file as it was.                                  *)
(***************************************************************************)
C20_UnencodableWriteRaises ==
    Unencodable => (probe.result = Raised /\ ~probe.changed)

\* The byte of the file f at the offset p (p inside the bytes held).
ByteAt(f, p) == f.data[p - f.base + 1]

\* The write of the length bytes bs at the offset o has made the file after
\* of the file before: the bytes at o..o+length-1 are bs, and every other
\* byte of after is a byte of before, the same one, and every byte of before
\* is still there.
OverwritesOnly(before, after, o, bs) ==
    /\ after.base = before.base
    /\ o + Len(bs) <= FileSize(after)
    /\ FileSize(before) <= FileSize(after)
    /\ \A p \in after.base..(FileSize(after) - 1) :
           IF o <= p /\ p < o + Len(bs)
           THEN ByteAt(after, p) = bs[p - o + 1]
           ELSE p < FileSize(before) /\ ByteAt(after, p) = ByteAt(before, p)

(***************************************************************************)
(* C21: a write_value_to_exe that succeeds (the offset parses and the      *)
(* value is encoded) overwrites the length bytes at offset..offset+length-1 *)
(* with the little-endian bytes of the value, all of them, and changes     *)
(* nothing else: every other byte the file has after the write is a byte   *)
(* it had before, unchanged.                                               *)
(***************************************************************************)
C21_WriteOverwritesExactRange ==
    [][(/\ probe'.op = "write"
        /\ int16(probe'.address).ok
        /\ probe'.result = None)
       => OverwritesOnly(disk[exe_path], disk'[exe_path],
                         int16(probe'.address).val,
                         LEBytes(probe'.value, probe'.length))]_vars

(***************************************************************************)
(* The frame of C21 for the writes that start inside the file or at its    *)
(* end: these change no byte outside offset..offset+length-1 (they make    *)
(* the file longer when the range ends beyond it).                         *)
(***************************************************************************)
OverwriteFromInsideFile ==
    [][(/\ probe'.op = "write"
        /\ int16(probe'.address).ok
        /\ probe'.result = None
        /\ int16(probe'.address).val <= FileSize(disk[exe_path]))
       => OverwritesOnly(disk[exe_path], disk'[exe_path],
                         int16(probe'.address).val,
                         LEBytes(probe'.value, probe'.length))]_vars

\* The record row is retained by an import: its Value is an integer literal.
Retained(row) == int10(Get(row, "Value")).ok

\* The (category, index) pairs, over the filtered lists of every category of
\* the catalog for the open version, whose key is that of a retained record.
MatchingPairs(rows) ==
    {<<k, i>> \in (1..Len(parameters_by_category)) \X (0..Len(CatalogRows)) :
        /\ i < Len(filter_parameters(shell, parameters_by_category[k].rows, version))
        /\ \E j \in 1..Len(rows) :
               /\ Retained(rows[j])
               /\ import_key(rows[j])
                      = import_key(filter_parameters(shell,
                                       parameters_by_category[k].rows, version)[i + 1])}

\* What an import of rows is to do by C22: it ends with the count of the
\* matching pairs, and without one it leaves the session as it was.
CountsMatches(rows) ==
    /\ pc' = "idle"
    /\ probe'.updated = Cardinality(MatchingPairs(rows))
    /\ MatchingPairs(rows) = {}
           => UNCHANGED <<unsaved_changes, current_category, current_params,
                          current_values, checked_parameters, param_table,
                          current_row, version, exe_path, disk>>

(***************************************************************************)
(* C22: an import leaves out every record whose Value is not a base-10     *)
(* integer, and the number of updates it reports is the number of          *)
(* (category, index) pairs, over every category's filtered list for the    *)
(* open version, whose key is the key of a record it kept; with no record  *)
(* kept or no pair matching it reports no update and changes nothing of    *)
(* the session.                                                            *)
(***************************************************************************)
C22_ImportCountsMatches ==
    [][\A rows \in {csv_file, HandWritten} :
          import_parameter_values(rows) => CountsMatches(rows)]_vars

(***************************************************************************)
(* The count of C22 in a session that has selected a category before the   *)
(* import: there the import ends with the count of the matching pairs.     *)
(***************************************************************************)
ImportCountAfterSelection ==
    [][\A rows \in {csv_file, HandWritten} :
          (current_category # Unset /\ import_parameter_values(rows))
          => CountsMatches(rows)]_vars

(***************************************************************************)
(* C23: in every state the session reaches, every integer unsaved_changes  *)
(* holds for a definition lies in 0..2^(8*length)-1 for the byte length    *)
(* save encodes the definition with (so that no save fails to encode a     *)
(* value).                                                                 *)
(***************************************************************************)
C23_ChangeSetValuesEncodable ==
    \A k \in 1..Len(unsaved_changes) :
        \A i \in DOMAIN unsaved_changes[k].values :
            (/\ i \in 0..(Len(unsaved_changes[k].params) - 1)
             /\ IsInt(unsaved_changes[k].values[i]))
            => Representable(unsaved_changes[k].values[i],
                             param_length(unsaved_changes[k].params[i + 1]))

(***************************************************************************)
(* Saves of imported values (the Qt editor): the user opens ICR2.EXE,      *)
(* selects categories, edits, imports a file written by hand, saves and    *)
(* reverts.  The file has one record, for Chassis/"drag" (the definition   *)
(* whose four bytes start two bytes before the end of ICR2.EXE).           *)
(***************************************************************************)
DragRecord == <<ImportRow(Hex(DosSize - 2), <<"4">>, <<"5">>)>>

CommitInit ==
    /\ SessionInit
    /\ disk = SampleDisk
    /\ probe = NoProbe
    /\ ops = -1
    /\ shell = "gui" /\ pc = "idle" /\ exe_path = NoPath

CommitNext ==
    \/ open_exe("ICR2.EXE")
    \/ \E index \in 0..2 : GuiSelect(index)
    \/ \E row \in 0..1 : on_change(row, PyInt(9))
    \/ import_parameter_values(DragRecord)
    \/ save_all
    \/ revert_all_changes

SpecCommit == CommitInit /\ [][CommitNext]_vars

(***************************************************************************)
(* C24: a save leaves the target file as long as it was when it was        *)
(* opened, so that the file is identified after the save as the version it *)
(* was opened as: no save makes it a file of another version or of none.   *)
(***************************************************************************)
C24_SaveKeepsFileLength ==
    (last.op = "save" /\ exe_path # NoPath) =>
        /\ FileSize(disk[exe_path]) = FileSize(SampleDisk[exe_path])
        /\ identify_icr2_version(shell, disk[exe_path]) = version

(***************************************************************************)
(* The length of C24 where every definition written lies inside the file:  *)
(* no file changes its length (so it is with the catalog, the edits and    *)
(* the imported files of Spec and SpecExchange).                           *)
(***************************************************************************)
FileLengthsKept == \A p \in Paths : FileSize(disk[p]) = FileSize(SampleDisk[p])

(***************************************************************************)
(* The two editors with everything a session does: the console editor as   *)
(* in Spec, and the Qt editor with export and import as in SpecExchange    *)
(* (its operations bounded as there).                                      *)
(***************************************************************************)
EditorsInit ==
    /\ SessionInit
    /\ disk = SampleDisk
    /\ probe = NoProbe
    /\ \/ shell = "console" /\ pc = "start" /\ exe_path \in Paths /\ ops = -1
       \/ shell = "gui" /\ pc = "idle" /\ exe_path = NoPath /\ ops = 0

EditorsNext == ConsoleNext \/ ExchangeNext

SpecEditors == EditorsInit /\ [][EditorsNext]_vars

(***************************************************************************)
(* C25: only a save changes a file.  Selecting a category, an edit         *)
(* (accepted or refused), an import, an export, a revert, ticking a row    *)
(* and opening a file leave every file byte for byte as it was, whatever   *)
(* the session holds; a file changes in a save, and in the save the user   *)
(* asks for when the program ends with unsaved changes.                    *)
(***************************************************************************)
C25_OnlySaveWritesFile ==
    [][/\ last'.op \in {"start", "open", "select", "edit", "back", "check",
                        "import", "export", "revert", "init"}
           => disk' = disk
       /\ disk' # disk
           => /\ unsaved_changes # << >>
              /\ \/ last'.op = "save"
                 \/ last'.op = "quit" /\ ConsoleQuit("y")
                 \/ last'.op = "close" /\ closeEvent("Save")]_vars

\* An import has put a value into unsaved_changes, after a save had changed
\* the file: the file is as the save left it, and does not hold the value.
C25_Witness ==
    /\ last = Op("import", TRUE, last.reads)
    /\ probe.op = "import" /\ probe.updated > 0
    /\ disk[exe_path] # SampleDisk[exe_path]
    /\ Has(unsaved_changes, "Chassis")
    /\ Entry(unsaved_changes, "Chassis").values[0] = PyInt(3)
    /\ FileValue(Entry(unsaved_changes, "Chassis").params[1]) # PyInt(3)

(***************************************************************************)
(* The console editor on ICR2.EXE, where the user also types the index -1  *)
(* in the parameter loop, with the value 7 (which the file holds for every *)
(* definition) or 9.                                                       *)
(***************************************************************************)
LastIndexInputs == {<<"-", "1">>} \X {str(PyInt(7)), str(PyInt(9))}

ConsoleInit ==
    /\ EditorInit
    /\ disk = SampleDisk
    /\ shell = "console" /\ exe_path = "ICR2.EXE"

LoopNext ==
    \/ ConsoleNext
    \/ \E in \in LastIndexInputs : ConsoleEdit(in[1], in[2])

SpecConsole == ConsoleInit /\ [][LoopNext]_vars

\* The file f holds, for the index i of the entry e of a ChangeSet, the
\* value the entry has for it: a read of the definition the index names
\* (parameters[i], as the edit took it) returns the value.
HoldsValue(f, e, i) ==
    read_value_from_exe(f, param_address(shell, e.params[PyIndex(Len(e.params), i)],
                                         version),
                        param_length(e.params[PyIndex(Len(e.params), i)]))
        = e.values[i]

(***************************************************************************)
(* C26: after a save that ends without an error the file holds, for every  *)
(* category that had an entry of unsaved_changes and every index of the    *)
(* entry's map, the value the entry had for it: a read of the definition's *)
(* offset and length returns it (and so the next selection of the category *)
(* shows it), in whatever order the categories were edited.                *)
(***************************************************************************)
C26_SavedValuesReadBack ==
    [][(/\ unsaved_changes # << >>
        /\ last'.op = "save" /\ last'.ok)
       => \A k \in 1..Len(unsaved_changes) :
              \A i \in DOMAIN unsaved_changes[k].values :
                  PyIndex(Len(unsaved_changes[k].params), i) # 0
                  => HoldsValue(disk'[exe_path], unsaved_changes[k], i)]_vars

(***************************************************************************)
(* The read back of C26 for the indices 0..n-1 of an entry's list of n     *)
(* definitions: the file holds the value of each of them after a save that *)
(* ends without an error.                                                  *)
(***************************************************************************)
SavedListValuesReadBack ==
    [][(/\ unsaved_changes # << >>
        /\ last'.op = "save" /\ last'.ok)
       => \A k \in 1..Len(unsaved_changes) :
              \A i \in DOMAIN unsaved_changes[k].values :
                  i \in 0..(Len(unsaved_changes[k].params) - 1)
                  => HoldsValue(disk'[exe_path], unsaved_changes[k], i)]_vars

====
